---- MODULE Spec2Model ----
(***************************************************************************)
(* RapidScan-AI: the hybrid reasoning and prioritisation engine.           *)
(*                                                                         *)
(*   src/backend/llm_triage.py   GeminiTriage (prompt, parse, fallback)    *)
(*   src/xray_model.py           XRayModel.predict_with_hybrid_rag         *)
(*   src/backend/weaviate_store.py  HybridRAGStore                         *)
(*   src/database.py             scans table, get_queue                    *)
(*                                                                         *)
(* Urgency scores are Python floats; they are kept here as integers in     *)
(* tenths (7.5 is 75), so 1.0 is 10 and 10.0 is 100.                       *)
(***************************************************************************)
EXTENDS Integers, Sequences, FiniteSets, TLC

VARIABLES
    conditions,      \* the classifier findings handed to the scorer / evaluation
    fallback,        \* value returned by _fallback_urgency (SpecFallback)
    response_text,   \* text returned by the reasoning backend
    parsed,          \* outcome of _parse_response (SpecParse)
    pc,              \* position of the evaluation in predict_with_hybrid_rag
    patient_id,      \* patient identifier of the evaluation, or NoPatient
    hospital_store,  \* HospitalCases collection: set of stored case ids
    patient_store,   \* PatientRecords collection: records in storage order
    rag_context,     \* rag_context of assess_urgency_hybrid_rag
    prompt,          \* request built by _build_hybrid_rag_prompt
    assessment,      \* value returned by predict_with_hybrid_rag
    path,            \* which branch produced the assessment
    scans,           \* rows of the scans table
    next_scan_id,    \* AUTOINCREMENT counter of scans.id
    now,             \* wall clock, in ticks of 20 seconds
    queue,           \* value returned by the latest get_queue
    writes,          \* patient_data of every add_patient_record call, in call order
    lookup,          \* outcome of the latest read of the store
    uploader,        \* position of each in-flight add_scan_to_rag call
    instance,        \* the module-level singleton (_triage_client, _rag_store, _model)
    constructions,   \* number of times the singleton's constructor has run
    caller,          \* position and locals of each thread inside a shared function
    patients,        \* rows of the patients table
    files,           \* files in the upload folder
    response         \* HTTP response of the latest request

vars == <<conditions, fallback, response_text, parsed, pc, patient_id,
          hospital_store, patient_store, rag_context, prompt, assessment,
          path, scans, next_scan_id, now, queue, writes, lookup, uploader,
          instance, constructions, caller, patients, files, response>>

fallbackVars == <<conditions, fallback>>
parseVars    == <<response_text, parsed>>
storeVars    == <<writes, lookup, uploader>>
getterVars   == <<instance, constructions, caller>>
uploadVars   == <<patients, files, response>>
serviceVars  == <<storeVars, getterVars, uploadVars>>
evalVars     == <<pc, patient_id, hospital_store, patient_store, rag_context,
                  prompt, assessment, path>>
queueVars    == <<scans, next_scan_id, now, queue>>

(***************************************************************************)
(* Bounds of the model                                                     *)
(***************************************************************************)
MaxFindings == 2
MaxEvalFindings == 2
MaxCases == 2
MaxScans == 2
MaxTime == 2

(***************************************************************************)
(* Small helpers                                                           *)
(***************************************************************************)
None == [kind |-> "None"]
NoPatient == "None"

Min2(a, b) == IF b < a THEN b ELSE a
Max2(a, b) == IF b > a THEN b ELSE a

SeqsUpTo(S, n) == UNION {[1..k -> S] : k \in 0..n}

RECURSIVE JoinNames(_)
\* [c.get("name", "") for c in conditions if c.get("name")]
JoinNames(cs) ==
    IF cs = <<>> THEN <<>>
    ELSE IF Head(cs).name # ""
         THEN <<Head(cs).name>> \o JoinNames(Tail(cs))
         ELSE JoinNames(Tail(cs))

\* float(n) for an integer urgency, in tenths
ToFloat(n) == n * 10

(***************************************************************************)
(* FallbackScorer: GeminiTriage._fallback_urgency                          *)
(***************************************************************************)
URGENCY_MAP ==
    ("Pneumothorax" :> 10) @@ ("Edema" :> 8) @@ ("Effusion" :> 7) @@
    ("Pleural_Effusion" :> 7) @@ ("Infiltration" :> 6) @@ ("Pneumonia" :> 6) @@
    ("Consolidation" :> 6) @@ ("Lung Opacity" :> 6) @@ ("Cardiomegaly" :> 4) @@
    ("Atelectasis" :> 3) @@ ("Mass" :> 5) @@ ("Nodule" :> 4)

FallbackDefault == 3

\* URGENCY_MAP.get(c.get("name", ""), 3)
MutantMapGet(name) ==
    IF name \in DOMAIN URGENCY_MAP THEN URGENCY_MAP[name] ELSE 0
MapGet(name) ==
    IF name \in DOMAIN URGENCY_MAP THEN URGENCY_MAP[name] ELSE FallbackDefault

RECURSIVE MaxUrgency(_)
\* max((URGENCY_MAP.get(...) for c in conditions), default=3)
MaxUrgency(cs) ==
    IF cs = <<>> THEN FallbackDefault
    ELSE IF Tail(cs) = <<>> THEN MapGet(Head(cs).name)
    ELSE Max2(MapGet(Head(cs).name), MaxUrgency(Tail(cs)))

RECURSIVE TopCondition(_)
\* max(conditions, key=...): the first condition of maximal urgency
TopCondition(cs) ==
    IF Tail(cs) = <<>> THEN Head(cs)
    ELSE LET rest == TopCondition(Tail(cs))
         IN  IF MapGet(rest.name) > MapGet(Head(cs).name) THEN rest ELSE Head(cs)

ImmediateAt == 9
UrgentAt == 7

\* "immediate" if urgency >= 9 else ("urgent" if urgency >= 7 else "routine")
MutantActionFor(urgency) ==
    IF urgency > ImmediateAt THEN "immediate"
    ELSE IF urgency > UrgentAt THEN "urgent" ELSE "routine"
ActionFor(urgency) ==
    IF urgency >= ImmediateAt THEN "immediate"
    ELSE IF urgency >= UrgentAt THEN "urgent" ELSE "routine"

FallbackUrgency(cs) ==
    IF cs = <<>>
    THEN [urgency_score |-> 0,
          reasoning |-> [kind |-> "no_findings", top |-> "", confidence |-> 0],
          recommended_action |-> "routine",
          risk_factors |-> <<>>,
          confidence |-> "medium"]
    ELSE LET urgency == MaxUrgency(cs)
             top == TopCondition(cs)
         IN  [urgency_score |-> ToFloat(urgency),
              reasoning |-> [kind |-> "fallback", top |-> top.name,
                             confidence |-> top.confidence],
              recommended_action |-> ActionFor(urgency),
              risk_factors |-> JoinNames(cs),
              confidence |-> "medium"]

(***************************************************************************)
(* Backend response texts.                                                 *)
(*                                                                         *)
(* A text is a sequence of tokens: a code fence (three backquotes), the    *)
(* language tag "json", white space, prose, or a payload (the characters   *)
(* of one candidate JSON document).  A payload carries the value that      *)
(* json.loads gives for it: kind "invalid" is text json.loads rejects.     *)
(* For a string or an array, has is the set of field names for which       *)
(* Python's `field in result` is true; for an object it is its key set.    *)
(***************************************************************************)
Fields == {"urgency_score", "reasoning", "recommended_action",
           "risk_factors", "confidence"}
RequiredFields == {"urgency_score", "reasoning", "recommended_action", "risk_factors"}

Reasoning(kind, top, confidence) ==
    [kind |-> kind, top |-> top, confidence |-> confidence]

NoObj == [urgency_score |-> [t |-> "null", v |-> 0],
          reasoning |-> Reasoning("none", "", 0),
          recommended_action |-> "", risk_factors |-> <<>>, confidence |-> ""]

Json(kind, has, obj) == [kind |-> kind, has |-> has, obj |-> obj]
NoJson == Json("none", {}, NoObj)

\* values a backend may put in "urgency_score" (numbers in tenths)
UrgencyNumbers == {-20, 0, 5, 10, 55, 70, 100, 105, 150}
UrgencyValues ==
    {[t |-> "num", v |-> n] : n \in UrgencyNumbers}
    \cup {[t |-> "numstr", v |-> 75],    \* "7.5"
          [t |-> "bool", v |-> 10],      \* true
          [t |-> "nan", v |-> 0],        \* NaN (json.loads accepts it)
          [t |-> "str", v |-> 0],        \* "high"
          [t |-> "null", v |-> 0],       \* null
          [t |-> "list", v |-> 0]}       \* [7]
ActionTexts == {"immediate", "urgent", "routine", "monitor"}
ConfidenceTexts == {"high", "medium", "low", "certain"}

\* what the backend wrote in "reasoning" and "risk_factors"
Narratives ==
    {[reasoning |-> Reasoning("backend", "stable", 0), risk_factors |-> <<>>],
     [reasoning |-> Reasoning("backend", "tension", 0), risk_factors |-> <<"age", "COPD">>]}

Obj(u, n, a, c) ==
    [urgency_score |-> u, reasoning |-> n.reasoning, recommended_action |-> a,
     risk_factors |-> n.risk_factors, confidence |-> c]

ObjectPayloads ==
    \* every required field present, confidence present or not
    {Json("object", has, Obj(u, n, a, IF "confidence" \in has THEN c ELSE "")) :
        has \in {Fields, RequiredFields}, u \in UrgencyValues, n \in Narratives,
        a \in ActionTexts, c \in ConfidenceTexts}
    \cup
    \* one required field missing
    {Json("object", Fields \ {f},
          Obj([t |-> "num", v |-> 70], CHOOSE n \in Narratives : n.risk_factors = <<>>,
              "urgent", "high")) : f \in RequiredFields}
    \cup {Json("object", {}, NoObj)}

OtherPayloads ==
    {Json("invalid", {}, NoObj),                 \* not JSON at all
     Json("null", {}, NoObj),                    \* null
     Json("number", {}, NoObj),                  \* 7
     Json("bool", {}, NoObj),                    \* true
     Json("string", {}, NoObj),                  \* "urgent"
     Json("string", RequiredFields, NoObj),      \* a string naming every field
     Json("array", {}, NoObj),                   \* []
     Json("array", {"urgency_score"}, NoObj),    \* ["urgency_score"]
     Json("array", RequiredFields, NoObj)}       \* an array of the field names

Payloads == ObjectPayloads \cup OtherPayloads

Tok(t) == [tok |-> t, val |-> NoJson]
Pay(p) == [tok |-> "payload", val |-> p]

Styles == {"bare", "padded", "fenced_json", "fenced_plain", "fenced_padded",
           "unclosed", "trailing_prose", "leading_prose", "empty_block",
           "spaced_tag"}

Wrap(style, p) ==
    CASE style = "bare"           -> <<Pay(p)>>
      [] style = "padded"         -> <<Tok("ws"), Pay(p), Tok("ws")>>
      [] style = "fenced_json"    -> <<Tok("fence"), Tok("json"), Tok("ws"), Pay(p),
                                       Tok("ws"), Tok("fence")>>
      [] style = "fenced_plain"   -> <<Tok("fence"), Tok("ws"), Pay(p), Tok("ws"),
                                       Tok("fence")>>
      [] style = "fenced_padded"  -> <<Tok("ws"), Tok("fence"), Tok("json"), Pay(p),
                                       Tok("fence"), Tok("ws")>>
      [] style = "unclosed"       -> <<Tok("fence"), Tok("json"), Pay(p)>>
      [] style = "trailing_prose" -> <<Tok("fence"), Tok("json"), Pay(p), Tok("fence"),
                                       Tok("ws"), Tok("prose")>>
      [] style = "leading_prose"  -> <<Tok("prose"), Tok("ws"), Tok("fence"),
                                       Tok("json"), Pay(p), Tok("fence")>>
      [] style = "empty_block"    -> <<Tok("fence"), Tok("fence"), Pay(p)>>
      [] style = "spaced_tag"     -> <<Tok("fence"), Tok("ws"), Tok("json"), Tok("ws"),
                                       Pay(p), Tok("fence")>>

EmptyText == <<>>
BareTexts == {EmptyText, <<Tok("ws")>>, <<Tok("prose")>>, <<Tok("fence")>>,
              <<Tok("fence"), Tok("json")>>}

Texts == {Wrap(s, p) : s \in Styles, p \in Payloads} \cup BareTexts

(***************************************************************************)
(* String operations of _parse_response on token sequences                 *)
(***************************************************************************)
RECURSIVE LStrip(_)
LStrip(s) == IF s # <<>> /\ Head(s).tok = "ws" THEN LStrip(Tail(s)) ELSE s

RECURSIVE RStrip(_)
RStrip(s) ==
    IF s # <<>> /\ s[Len(s)].tok = "ws" THEN RStrip(SubSeq(s, 1, Len(s) - 1)) ELSE s

\* str.strip()
Strip(s) == RStrip(LStrip(s))

\* str.startswith("```")
StartsWithFence(s) == s # <<>> /\ Head(s).tok = "fence"

RECURSIVE SplitFence(_)
\* str.split("```"): the parts between the fences, empty parts included
SplitFence(s) ==
    IF \A i \in 1..Len(s) : s[i].tok # "fence" THEN <<s>>
    ELSE LET i == CHOOSE k \in 1..Len(s) :
                     s[k].tok = "fence" /\ \A j \in 1..(k - 1) : s[j].tok # "fence"
         IN  <<SubSeq(s, 1, i - 1)>> \o SplitFence(SubSeq(s, i + 1, Len(s)))

\* block.lower().startswith("json")
StartsWithJsonTag(s) == s # <<>> /\ Head(s).tok = "json"

\* lines 143-150: strip, then take the first fenced block without its tag
CleanText(text) ==
    LET cleaned == Strip(text)
    IN  IF StartsWithFence(cleaned)
        THEN LET parts == SplitFence(cleaned)
             IN  IF Len(parts) >= 2
                 THEN LET block == parts[2]
                      IN  Strip(IF StartsWithJsonTag(block) THEN Tail(block) ELSE block)
                 ELSE cleaned
        ELSE cleaned

\* json.loads: one JSON document, white space around it allowed
JsonLoads(s) ==
    LET t == Strip(s)
    IN  IF Len(t) = 1 /\ t[1].tok = "payload" /\ t[1].val.kind # "invalid"
        THEN [ok |-> TRUE, value |-> t[1].val]
        ELSE [ok |-> FALSE, value |-> NoJson]

\* float(x) of a decoded JSON value
Float(x) ==
    CASE x.t \in {"num", "numstr", "bool"} -> [exc |-> "none", v |-> x.v, nan |-> FALSE]
      [] x.t = "nan"                       -> [exc |-> "none", v |-> 0, nan |-> TRUE]
      [] x.t = "str"                       -> [exc |-> "ValueError", v |-> 0, nan |-> FALSE]
      [] OTHER                             -> [exc |-> "TypeError", v |-> 0, nan |-> FALSE]

LowClamp == 10
HighClamp == 100

\* max(1.0, min(10.0, x)); every comparison with NaN is false, so that
\* min(10.0, NaN) is 10.0
MutantClamp(f) == IF f.nan THEN HighClamp ELSE f.v
Clamp(f) ==
    LET lo == IF f.nan THEN HighClamp ELSE Min2(HighClamp, f.v)
    IN  Max2(LowClamp, lo)

\* lines 163-169
DegradedAssessment ==
    [urgency_score |-> 50,
     reasoning |-> Reasoning("unparseable", "", 0),
     recommended_action |-> "urgent",
     risk_factors |-> <<"parsing_error">>,
     confidence |-> "low"]

NoAssessment ==
    [urgency_score |-> 0,
     reasoning |-> Reasoning("none", "", 0),
     recommended_action |-> "",
     risk_factors |-> <<>>,
     confidence |-> ""]

Return(v) == [kind |-> "return", exc |-> "", value |-> v]
Raise(e) == [kind |-> "raise", exc |-> e, value |-> NoAssessment]
NotRun == [kind |-> "pending", exc |-> "", value |-> NoAssessment]

\* the exception classes the except clause of line 161 catches
Caught == {"JSONDecodeError", "ValueError"}

\* lines 152-160: the body of the try block; the exception it raises, if any
TryBody(cleaned) ==
    LET loaded == JsonLoads(cleaned)
        result == loaded.value
    IN  IF ~loaded.ok THEN Raise("JSONDecodeError")
        ELSE IF result.kind \in {"null", "number", "bool"}
             THEN Raise("TypeError")                  \* `field in result`
        ELSE IF ~(RequiredFields \subseteq result.has)
             THEN Raise("ValueError")                 \* Missing required field
        ELSE IF result.kind # "object"
             THEN Raise("TypeError")                  \* result["urgency_score"]
        ELSE LET f == Float(result.obj.urgency_score)
             IN  IF f.exc # "none" THEN Raise(f.exc)
                 ELSE Return([urgency_score |-> Clamp(f),
                              reasoning |-> result.obj.reasoning,
                              recommended_action |-> result.obj.recommended_action,
                              risk_factors |-> result.obj.risk_factors,
                              confidence |-> IF "confidence" \in result.has
                                             THEN result.obj.confidence
                                             ELSE "medium"])

\* GeminiTriage._parse_response
ParseResponse(text) ==
    LET out == TryBody(CleanText(text))
    IN  IF out.kind = "raise" /\ out.exc \in Caught
        THEN Return(DegradedAssessment)
        ELSE out

(***************************************************************************)
(* The classifier's findings: XRayModel.predict                            *)
(***************************************************************************)
XRAY_URGENCY_MAP ==
    ("Pneumothorax" :> 10) @@ ("Edema" :> 8) @@ ("Effusion" :> 7) @@
    ("Infiltration" :> 6) @@ ("Pneumonia" :> 6) @@ ("Consolidation" :> 6) @@
    ("Lung Opacity" :> 6) @@ ("Cardiomegaly" :> 4) @@
    ("Enlarged Cardiomediastinum" :> 4) @@ ("Atelectasis" :> 3) @@ ("Mass" :> 5) @@
    ("Nodule" :> 4) @@ ("Pleural_Thickening" :> 4) @@ ("Emphysema" :> 4) @@
    ("Fibrosis" :> 3) @@ ("Hernia" :> 3) @@ ("Lung Lesion" :> 5) @@ ("Fracture" :> 6)

DEFAULT_URGENCY == 3

\* URGENCY_MAP.get(name, DEFAULT_URGENCY)
XRayGet(name) ==
    IF name \in DOMAIN XRAY_URGENCY_MAP THEN XRAY_URGENCY_MAP[name] ELSE DEFAULT_URGENCY

\* the dict predict appends for a pathology scoring at least the threshold
Condition(name, confidence) ==
    [name |-> name, confidence |-> confidence, urgency |-> XRayGet(name)]

\* condition labels: both tables' keys and one label neither table lists
Names == DOMAIN URGENCY_MAP \cup DOMAIN XRAY_URGENCY_MAP \cup {"Unlisted"}

\* confidences in hundredths, at or above CONFIDENCE_THRESHOLD
Confidences == {50, 95}

FindingLists == SeqsUpTo({Condition(n, c) : n \in Names, c \in Confidences}, MaxFindings)

(***************************************************************************)
(* HybridRAGStore as the evaluation reads it                               *)
(***************************************************************************)
N_RESULTS == 3

\* sequences without repetition of at most n elements of S
RECURSIVE DistinctSeqs(_, _)
DistinctSeqs(S, n) ==
    IF n = 0 \/ S = {} THEN {<<>>}
    ELSE {<<>>} \cup UNION {{<<x>> \o t : t \in DistinctSeqs(S \ {x}, n - 1)} : x \in S}

\* find_similar_hospital_cases: `ranking` is what bm25(query, limit=n_results)
\* answers and `fails` whether the store raises; the except clause of line 288
\* catches every Exception
MutantFindSimilar(store, current_conditions, n_results, ranking, fails) ==
    [queried |-> TRUE,
     outcome |-> IF fails THEN Raise("Exception") ELSE Return(ranking)]
FindSimilar(store, current_conditions, n_results, ranking, fails) ==
    IF current_conditions = <<>>
    THEN [queried |-> FALSE, outcome |-> Return(<<>>)]
    ELSE LET tried == IF fails THEN Raise("Exception") ELSE Return(ranking)
         IN  [queried |-> TRUE,
              outcome |-> IF tried.kind = "raise" THEN Return(<<>>) ELSE tried]

\* what the call may return.  The ranking is the store's BM25 search, so any
\* at most n_results stored cases in any order may come back.
FindSimilarOutcomes(store, current_conditions, n_results) ==
    {FindSimilar(store, current_conditions, n_results, ranking, fails).outcome.value :
        ranking \in DistinctSeqs(store, n_results), fails \in BOOLEAN}

\* fetch_objects(filters=patient_id == pid): the matching records, in storage order
SelectRecords(store, pid) ==
    LET Matches(record) == record.patient_id = pid
    IN  SelectSeq(store, Matches)

FETCH_LIMIT == 100

\* fetch_objects(filters=..., limit=100): at most the first 100 matching records
FetchRecords(store, pid) ==
    LET records == SelectRecords(store, pid)
    IN  SubSeq(records, 1, Min2(FETCH_LIMIT, Len(records)))

RECURSIVE MutantAppendNew(_, _)
MutantAppendNew(acc, rs) ==
    IF rs = <<>> THEN acc
    ELSE MutantAppendNew(IF Head(rs) # "" THEN Append(acc, Head(rs)) ELSE acc, Tail(rs))
RECURSIVE AppendNew(_, _)
\* for r in ...: if r and r not in all_risk_factors: all_risk_factors.append(r)
AppendNew(acc, rs) ==
    IF rs = <<>> THEN acc
    ELSE LET r == Head(rs)
             seen == \E i \in 1..Len(acc) : acc[i] = r
         IN  AppendNew(IF r # "" /\ ~seen THEN Append(acc, r) ELSE acc, Tail(rs))

\* one pass of the loop body, lines 313-328
MergeStep(acc, props) ==
    [scan_history |-> acc.scan_history \o props.scan_history,
     age |-> props.age,
     gender |-> IF props.gender # "" THEN props.gender ELSE acc.gender,
     total_previous_scans |->
         Max2(acc.total_previous_scans, props.total_previous_scans),
     risk_factors |-> AppendNew(acc.risk_factors, props.risk_factors)]

RECURSIVE MergeRecords(_, _)
\* the loop of lines 312-328 over the fetched records, in their order: the
\* loop over a list is the loop over its second half, started from what the
\* loop over its first half leaves (the set binds that value before the
\* second half starts, which keeps the evaluation shallow for long lists)
MergeRecords(acc, records) ==
    IF records = <<>> THEN acc
    ELSE IF Len(records) = 1 THEN MergeStep(acc, records[1])
    ELSE LET half == Len(records) \div 2
         IN  CHOOSE merged \in
                 {MergeRecords(left, SubSeq(records, half + 1, Len(records))) :
                     left \in {MergeRecords(acc, SubSeq(records, 1, half))}} : TRUE

\* get_patient_history when the store answers
MergedHistory(store, pid) ==
    LET records == FetchRecords(store, pid)
        m == MergeRecords([scan_history |-> <<>>, age |-> 0, gender |-> "",
                           total_previous_scans |-> 0, risk_factors |-> <<>>], records)
    IN  IF records = <<>> THEN None
        ELSE [kind |-> "history",
              patient_id |-> pid,
              age |-> m.age,
              gender |-> m.gender,
              chronic_conditions |-> records[1].chronic_conditions,
              risk_factors |-> m.risk_factors,
              scan_history |-> m.scan_history,
              total_previous_scans |-> m.total_previous_scans]

\* get_patient_history: the whole body is inside try / except Exception
MutantGetPatientHistory(store, pid, fails) ==
    IF fails THEN Raise("Exception") ELSE Return(MergedHistory(store, pid))
GetPatientHistory(store, pid, fails) ==
    LET tried == IF fails THEN Raise("Exception")
                 ELSE Return(MergedHistory(store, pid))
    IN  IF tried.kind = "raise" THEN Return(None) ELSE tried

\* the merged history, or None when the lookup fails
PatientHistoryOutcomes(store, pid) ==
    {GetPatientHistory(store, pid, fails).value : fails \in BOOLEAN}

\* the records two earlier uploads of patient P1 left in PatientRecords
ScanEntry(names, score, action) ==
    [conditions |-> names, urgency_score |-> score, recommended_action |-> action]
RecordedVisits ==
    <<[patient_id |-> "P1", age |-> 70, gender |-> "M",
       chronic_conditions |-> <<"COPD">>, risk_factors |-> <<"smoker">>,
       scan_history |-> <<ScanEntry(<<"Effusion">>, 70, "urgent")>>,
       total_previous_scans |-> 1],
      [patient_id |-> "P1", age |-> 0, gender |-> "",
       chronic_conditions |-> <<>>, risk_factors |-> <<"smoker", "age">>,
       scan_history |-> <<ScanEntry(<<>>, 10, "routine")>>,
       total_previous_scans |-> 2]>>

\* what add_patient_record stores for a profile that has only the identifier
BareVisit ==
    [patient_id |-> "P1", age |-> 0, gender |-> "",
     chronic_conditions |-> <<>>, risk_factors |-> <<>>,
     scan_history |-> <<>>, total_previous_scans |-> 0]

\* a profile whose own scan_history lists four scans (seeded profiles carry
\* several entries in one record)
LongVisit ==
    [patient_id |-> "P1", age |-> 70, gender |-> "M",
     chronic_conditions |-> <<"COPD">>, risk_factors |-> <<"smoker">>,
     scan_history |-> <<ScanEntry(<<"Atelectasis">>, 30, "routine"),
                        ScanEntry(<<"Effusion">>, 70, "urgent"),
                        ScanEntry(<<"Edema">>, 80, "urgent"),
                        ScanEntry(<<"Pneumothorax">>, 100, "immediate")>>,
     total_previous_scans |-> 4]

(***************************************************************************)
(* AssessmentPromptBuilder: _build_hybrid_rag_prompt                       *)
(***************************************************************************)
Truthy(history) == history.kind # "None"

BuildHybridRagPrompt(conds, rag) ==
    [kind |-> "prompt",
     findings |-> conds,
     hospital_cases |-> rag.hospital_cases,
     has_history |-> Truthy(rag.patient_history),
     prior_scans |->
         IF Truthy(rag.patient_history)
         THEN SubSeq(rag.patient_history.scan_history, 1,
                     Min2(3, Len(rag.patient_history.scan_history)))
         ELSE <<>>]

(***************************************************************************)
(* Idle values of the variables a specification does not use               *)
(***************************************************************************)
EmptyRag == [hospital_cases |-> <<>>, patient_history |-> None]
NoPrompt == [kind |-> "none"]

IdleFallback == conditions = <<>> /\ fallback = NotRun
IdleParse == response_text = EmptyText /\ parsed = NotRun
IdleEval ==
    /\ pc = "idle"
    /\ patient_id = NoPatient
    /\ hospital_store = {}
    /\ patient_store = <<>>
    /\ rag_context = EmptyRag
    /\ prompt = NoPrompt
    /\ assessment = NoAssessment
    /\ path = "none"
IdleQueue == scans = <<>> /\ next_scan_id = 1 /\ now = 0 /\ queue = <<>>
NoLookup == [op |-> "none"]
NoResponse == [status |-> 0]
IdleStore == writes = <<>> /\ lookup = NoLookup /\ uploader = <<>>
IdleGetter == instance = None /\ constructions = 0 /\ caller = <<>>
IdleUpload == patients = <<>> /\ files = {} /\ response = NoResponse
IdleServices == IdleStore /\ IdleGetter /\ IdleUpload

(***************************************************************************)
(* SpecFallback: _fallback_urgency applied to every bounded finding list   *)
(***************************************************************************)
InitFallback ==
    /\ conditions \in FindingLists
    /\ fallback = NotRun
    /\ IdleParse /\ IdleEval /\ IdleQueue /\ IdleServices

Fallback_urgency ==
    /\ fallback = NotRun
    /\ fallback' = Return(FallbackUrgency(conditions))
    /\ UNCHANGED <<conditions, parseVars, evalVars, queueVars, serviceVars>>

NextFallback == Fallback_urgency

SpecFallback == InitFallback /\ [][NextFallback]_vars

(***************************************************************************)
(* SpecParse: _parse_response applied to every bounded response text       *)
(***************************************************************************)
InitParse ==
    /\ response_text \in Texts
    /\ parsed = NotRun
    /\ conditions = <<>> /\ fallback = NotRun
    /\ IdleEval /\ IdleQueue /\ IdleServices

Parse_response ==
    /\ parsed = NotRun
    /\ parsed' = ParseResponse(response_text)
    /\ UNCHANGED <<response_text, fallbackVars, evalVars, queueVars, serviceVars>>

NextParse == Parse_response

SpecParse == InitParse /\ [][NextParse]_vars

(***************************************************************************)
(* SpecEval: one triage evaluation, XRayModel.predict_with_hybrid_rag      *)
(* around GeminiTriage.assess_urgency_hybrid_rag.                          *)
(*                                                                         *)
(* pc: "start" (findings in hand, line 291 done), "rag" (client obtained), *)
(* "call" (rag_context filled), "await" (generate_content sent, no answer  *)
(* yet), "done" (predict_with_hybrid_rag returned).                        *)
(***************************************************************************)
\* labels the classifier may report, in the order of its pathology list
PathologyOrder == <<"Atelectasis", "Pneumothorax", "Effusion", "Fracture">>

RECURSIVE Detected(_, _)
\* lines 189-201: one condition per pathology at or above the threshold
Detected(names, hit) ==
    IF names = <<>> THEN <<>>
    ELSE IF Head(names) \in hit
         THEN <<Condition(Head(names), 95)>> \o Detected(Tail(names), hit)
         ELSE Detected(Tail(names), hit)

EvalFindingLists ==
    {Detected(PathologyOrder, hit) :
        hit \in {h \in SUBSET {PathologyOrder[i] : i \in 1..Len(PathologyOrder)} :
                    Cardinality(h) <= MaxEvalFindings}}

PatientIds == {NoPatient, "P1"}

\* what the backend may answer in an evaluation
EvalPayloads ==
    {Json("object", has,
          Obj(u, CHOOSE n \in Narratives : n.risk_factors # <<>>, a,
              IF "confidence" \in has THEN "certain" ELSE "")) :
        has \in {Fields, RequiredFields},
        u \in {[t |-> "num", v |-> 0], [t |-> "num", v |-> 55],
               [t |-> "num", v |-> 150], [t |-> "null", v |-> 0]},
        a \in {"routine", "monitor"}}
    \cup {Json("invalid", {}, NoObj), Json("null", {}, NoObj), Json("object", {}, NoObj)}

EvalTexts ==
    {Wrap(s, p) : s \in {"bare", "fenced_json"}, p \in EvalPayloads}
    \cup {EmptyText, <<Tok("ws")>>}

\* the dict predict_with_hybrid_rag returns, without the classifier's own keys
Assessment(a, rag_enabled, hospital_cases_used, patient_history_found) ==
    [urgency_score |-> a.urgency_score,
     reasoning |-> a.reasoning,
     recommended_action |-> a.recommended_action,
     risk_factors |-> a.risk_factors,
     confidence |-> a.confidence,
     rag_enabled |-> rag_enabled,
     hospital_cases_used |-> hospital_cases_used,
     patient_history_found |-> patient_history_found]

NoEvaluation == Assessment(NoAssessment, FALSE, 0, FALSE)

RECURSIVE MaxConditionUrgency(_)
\* predict, line 204: max((c["urgency"] for c in conditions), default=0)
MaxConditionUrgency(cs) ==
    IF cs = <<>> THEN 0
    ELSE Max2(Head(cs).urgency, MaxConditionUrgency(Tail(cs)))

\* predict_with_hybrid_rag, lines 316-337: the except branch
MutantXRayFallback(cs) == NoEvaluation
XRayFallback(cs) ==
    LET urgency == MaxConditionUrgency(cs)
    IN  Assessment([urgency_score |-> ToFloat(urgency),
                    reasoning |-> Reasoning("rag_failed", "", urgency),
                    recommended_action |-> ActionFor(urgency),
                    risk_factors |-> JoinNames(cs),
                    confidence |-> "low"],
                   FALSE, 0, FALSE)

\* assess_urgency_hybrid_rag, lines 223-226 and 230-233, then lines 302-315
MutantWithRagMetadata(a, rag) ==
    Assessment(a, TRUE, 0, Truthy(rag.patient_history))
MutantFoundByScans(a, rag) ==
    Assessment(a, TRUE, Len(rag.hospital_cases),
               rag.patient_history.kind # "None"
                   /\ rag.patient_history.scan_history # <<>>)
WithRagMetadata(a, rag) ==
    Assessment(a, TRUE, Len(rag.hospital_cases), rag.patient_history.kind # "None")

\* lines 227-233: the except branch of assess_urgency_hybrid_rag
OnBackendError(cs, rag) == WithRagMetadata(FallbackUrgency(cs), rag)

InitEval ==
    /\ conditions \in EvalFindingLists
    /\ patient_id \in PatientIds
    /\ hospital_store \in {1..n : n \in 0..MaxCases}
    /\ patient_store \in {SubSeq(RecordedVisits, 1, k) : k \in 0..Len(RecordedVisits)}
                         \cup {<<BareVisit>>, <<LongVisit>>}
    /\ pc = "start"
    /\ rag_context = EmptyRag
    /\ prompt = NoPrompt
    /\ response_text = EmptyText
    /\ assessment = NoEvaluation
    /\ path = "none"
    /\ fallback = NotRun /\ parsed = NotRun
    /\ IdleQueue /\ IdleServices

\* lines 293-295: get_triage_client() returns the client
GetTriageClient ==
    /\ pc = "start"
    /\ pc' = "rag"
    /\ UNCHANGED <<conditions, fallback, parseVars, patient_id, hospital_store,
                   patient_store, rag_context, prompt, assessment, path, queueVars, serviceVars>>

\* lines 293-295 and 316-337: get_triage_client() raises (no API key, no
\* google.generativeai); the except branch answers from the classifier's table
GetTriageClientFails ==
    /\ pc = "start"
    /\ pc' = "done"
    /\ assessment' = XRayFallback(conditions)
    /\ path' = "xray_fallback"
    /\ UNCHANGED <<conditions, fallback, parseVars, patient_id, hospital_store,
                   patient_store, rag_context, prompt, queueVars, serviceVars>>

\* lines 193-212 with get_rag_store() raising: rag_context stays empty
RagStoreUnavailable ==
    /\ pc = "rag"
    /\ pc' = "call"
    /\ rag_context' = EmptyRag
    /\ UNCHANGED <<conditions, fallback, parseVars, patient_id, hospital_store,
                   patient_store, prompt, assessment, path, queueVars, serviceVars>>

\* lines 193-212: both lookups, each of which may fail inside the store
MutantRagQuery ==
    /\ pc = "rag"
    /\ \E cases \in FindSimilarOutcomes(hospital_store, JoinNames(conditions), N_RESULTS),
          history \in PatientHistoryOutcomes(patient_store, patient_id) :
           rag_context' = [hospital_cases |-> cases,
                           patient_history |->
                               IF patient_id # NoPatient THEN history ELSE None]
    /\ pc' = "call"
    /\ patient_store' = IF patient_id # NoPatient /\ patient_store = <<>>
                        THEN <<BareVisit>> ELSE patient_store
    /\ UNCHANGED <<conditions, fallback, parseVars, patient_id, hospital_store,
                   prompt, assessment, path, queueVars, serviceVars>>
RagQuery ==
    /\ pc = "rag"
    /\ \E cases \in FindSimilarOutcomes(hospital_store, JoinNames(conditions), N_RESULTS),
          history \in PatientHistoryOutcomes(patient_store, patient_id) :
           rag_context' = [hospital_cases |-> cases,
                           patient_history |->
                               IF patient_id # NoPatient THEN history ELSE None]
    /\ pc' = "call"
    /\ UNCHANGED <<conditions, fallback, parseVars, patient_id, hospital_store,
                   patient_store, prompt, assessment, path, queueVars, serviceVars>>

\* lines 214-218: build the prompt and send it; generate_content is given no
\* timeout or request options
CallBackend ==
    /\ pc = "call"
    /\ prompt' = BuildHybridRagPrompt(conditions, rag_context)
    /\ pc' = "await"
    /\ UNCHANGED <<conditions, fallback, parseVars, patient_id, hospital_store,
                   patient_store, rag_context, assessment, path, queueVars, serviceVars>>

\* lines 218-226 (and 227-233 when the text is empty or parsing raises), then
\* lines 302-315: the backend answered with a text
BackendReplies ==
    /\ pc = "await"
    /\ \E text \in EvalTexts :
           LET tried == TryBody(CleanText(text))
               out == ParseResponse(text)
           IN  /\ response_text' = text
               /\ IF text = EmptyText \/ out.kind = "raise"
                  THEN /\ assessment' = OnBackendError(conditions, rag_context)
                       /\ path' = "fallback"
                  ELSE /\ assessment' = WithRagMetadata(out.value, rag_context)
                       /\ path' = IF tried.kind = "raise" THEN "degraded" ELSE "reasoning"
    /\ pc' = "done"
    /\ UNCHANGED <<conditions, fallback, parsed, patient_id, hospital_store,
                   patient_store, rag_context, prompt, queueVars, serviceVars>>

\* lines 218 and 227-233, then 302-315: generate_content (or response.text) raised
BackendRaises ==
    /\ pc = "await"
    /\ assessment' = OnBackendError(conditions, rag_context)
    /\ path' = "fallback"
    /\ pc' = "done"
    /\ UNCHANGED <<conditions, fallback, parseVars, patient_id, hospital_store,
                   patient_store, rag_context, prompt, queueVars, serviceVars>>

NextEval ==
    \/ GetTriageClient
    \/ GetTriageClientFails
    \/ RagStoreUnavailable
    \/ RagQuery
    \/ CallBackend
    \/ BackendReplies
    \/ BackendRaises

SpecEval == InitEval /\ [][NextEval]_vars

\* The evaluation's own steps are taken once they can be; the store answers or
\* fails (RagQuery, RagStoreUnavailable).  Nothing makes the reasoning backend
\* answer: BackendReplies and BackendRaises are the backend's moves.
FairEval ==
    /\ WF_vars(GetTriageClient \/ GetTriageClientFails)
    /\ WF_vars(RagStoreUnavailable \/ RagQuery)
    /\ WF_vars(CallBackend)

LiveEval == InitEval /\ [][NextEval]_vars /\ FairEval

(***************************************************************************)
(* SpecQueue: the scans table of database.py and get_queue                 *)
(*                                                                         *)
(* upload_time and the clock are in ticks of 20 seconds, so that no        *)
(* difference is exactly half a minute (where the floating-point           *)
(* arithmetic of julianday would decide the rounding).  Every writer       *)
(* stores upload_time in the same fixed-width text format                  *)
(* (CURRENT_TIMESTAMP, or strftime "%Y-%m-%d %H:%M:%S" in the seeding      *)
(* script), for which SQLite's text comparison is the comparison of the    *)
(* stored instants.                                                        *)
(***************************************************************************)
FacilityIds == {1, 2}
QueueScores == {80, 100}
Statuses == {"pending", "reviewed"}
\* get_queue's facility_id argument: None, or a facility's id
FacilityFilters == {None} \cup {[kind |-> "int", v |-> f] : f \in FacilityIds}

\* ORDER BY s.urgency_score DESC, s.upload_time ASC: a must come before b
MutantOrderBy(a, b) ==
    \/ a.urgency_score > b.urgency_score
    \/ a.urgency_score = b.urgency_score /\ a.upload_time > b.upload_time
OrderBy(a, b) ==
    \/ a.urgency_score > b.urgency_score
    \/ a.urgency_score = b.urgency_score /\ a.upload_time < b.upload_time

\* WHERE s.status = 'pending' [AND s.facility_id = ?]
MutantSelected(rows, facility_id) ==
    {i \in 1..Len(rows) :
        facility_id # None => rows[i].facility_id = facility_id.v}
Selected(rows, facility_id) ==
    {i \in 1..Len(rows) :
        /\ rows[i].status = "pending"
        /\ facility_id # None => rows[i].facility_id = facility_id.v}

\* the row lists the SELECT may return: the selected rows in an order that
\* respects ORDER BY (rows equal in both keys come in either order)
QueryResults(rows, facility_id) ==
    LET sel == Selected(rows, facility_id)
        n == Cardinality(sel)
    IN  {[k \in 1..n |-> rows[f[k]]] :
            f \in {g \in [1..n -> sel] :
                     /\ \A i, j \in 1..n : i # j => g[i] # g[j]
                     /\ \A i, j \in 1..n : i < j => ~OrderBy(rows[g[j]], rows[g[i]])}}

\* line 436: ROUND((julianday('now') - julianday(s.upload_time)) * 24 * 60),
\* SQLite's rounding to the nearest integer, of a difference given in ticks
SqlRoundMinutes(ticks) ==
    IF ticks >= 0 THEN (2 * ticks + 3) \div 6 ELSE -((3 - 2 * ticks) \div 6)

\* lines 450-467: the dict built for each row; wait_minutes is SQL's
\* ROUND((julianday('now') - julianday(upload_time)) * 24 * 60), then int()
QueueEntry(row, clock) ==
    [id |-> row.id, facility_id |-> row.facility_id,
     urgency_score |-> row.urgency_score, upload_time |-> row.upload_time,
     wait_minutes |-> SqlRoundMinutes(clock - row.upload_time)]

\* a value that is present (None is the absent one)
Some(v) == [kind |-> "some", v |-> v]

\* a row of the patients table
PatientRow(identifier, age, name, total_scans) ==
    [patient_identifier |-> identifier, age |-> age, name |-> name,
     total_scans |-> total_scans]

\* GET /queue answered with the list for this facility filter
Listed(facility_id) == [status |-> 200, op |-> "queue", facility_id |-> facility_id]

\* PATCH /scan/<id>/status: 200 when a row was updated, else 404
StatusAnswer(scan_id, updated) ==
    [status |-> IF updated THEN 200 ELSE 404, op |-> "scan_status",
     scan_id |-> scan_id]

\* the patients table while the queue is worked on: one patient on file
SeededPatients == <<PatientRow("P1", Some(40), None, 1)>>

queueFrame == <<fallbackVars, parseVars, evalVars, storeVars, getterVars, patients,
                files>>

InitQueue ==
    /\ scans = <<>>
    /\ next_scan_id = 1
    /\ now = 0
    /\ queue = <<>>
    /\ patients = SeededPatients
    /\ files = {}
    /\ response = NoResponse
    /\ IdleFallback /\ IdleParse /\ IdleEval /\ IdleStore /\ IdleGetter

\* add_scan: one INSERT; upload_time is CURRENT_TIMESTAMP (the upload
\* handler) or the caller's string.  The seeding script passes the local
\* datetime.now() minus some minutes, while the queue's 'now' is UTC, so a
\* stored upload_time may lie on either side of the clock.
add_scan ==
    /\ next_scan_id <= MaxScans
    /\ \E facility_id \in FacilityIds, urgency_score \in QueueScores,
          upload_time \in {0, now, MaxTime} :
           scans' = Append(scans, [id |-> next_scan_id,
                                   facility_id |-> facility_id,
                                   urgency_score |-> urgency_score,
                                   upload_time |-> upload_time,
                                   status |-> "pending"])
    /\ next_scan_id' = next_scan_id + 1
    /\ queue' = <<>>
    /\ response' = NoResponse
    /\ UNCHANGED <<now, queueFrame>>

\* UPDATE scans SET status = ? WHERE id = ?
MutantSetStatus(rows, scan_id, status) ==
    [i \in 1..Len(rows) |->
        IF rows[i].id = scan_id
        THEN [rows[i] EXCEPT !.status = status, !.urgency_score = 0]
        ELSE rows[i]]
SetStatus(rows, scan_id, status) ==
    [i \in 1..Len(rows) |->
        IF rows[i].id = scan_id
        THEN [rows[i] EXCEPT !.status = status]
        ELSE rows[i]]

\* update_scan_status, called by the scan_status handler: cur.rowcount > 0 is
\* what the function returns and what decides between 200 and 404
update_scan_status ==
    /\ \E scan_id \in 1..MaxScans, status \in Statuses :
           /\ scans' = SetStatus(scans, scan_id, status)
           /\ response' = StatusAnswer(scan_id,
                                       \E i \in 1..Len(scans) : scans[i].id = scan_id)
    /\ queue' = <<>>
    /\ UNCHANGED <<next_scan_id, now, queueFrame>>

\* clear_all_scans: DELETE FROM scans
clear_all_scans ==
    /\ scans' = <<>>
    /\ queue' = <<>>
    /\ response' = NoResponse
    /\ UNCHANGED <<next_scan_id, now, queueFrame>>

\* get_queue(facility_id): the response of this request
get_queue ==
    /\ \E facility_id \in FacilityFilters :
         \E rows \in QueryResults(scans, facility_id) :
           /\ queue' = [k \in 1..Len(rows) |-> QueueEntry(rows[k], now)]
           /\ response' = Listed(facility_id)
    /\ UNCHANGED <<scans, next_scan_id, now, queueFrame>>

\* twenty seconds pass
Tick ==
    /\ now < MaxTime
    /\ now' = now + 1
    /\ queue' = <<>>
    /\ response' = NoResponse
    /\ UNCHANGED <<scans, next_scan_id, queueFrame>>

NextQueue ==
    \/ add_scan
    \/ update_scan_status
    \/ clear_all_scans
    \/ get_queue
    \/ Tick

SpecQueue == InitQueue /\ [][NextQueue]_vars

\* C1: get_queue lists the pending scans so that of any two entries the one
\* listed first has the higher urgency_score, or the same score and an
\* upload_time that is not later: higher urgency first whatever the arrival
\* times, and at equal urgency the earlier arrival first.
C1_QueueOrder ==
    \A i, j \in 1..Len(queue) :
        i < j =>
            \/ queue[i].urgency_score > queue[j].urgency_score
            \/ /\ queue[i].urgency_score = queue[j].urgency_score
               /\ queue[i].upload_time <= queue[j].upload_time

\* scenario 3: B was stored after A, arrived earlier at the same urgency, and
\* is listed first
C1_Witness ==
    /\ Len(queue) = 2
    /\ queue[1].urgency_score = queue[2].urgency_score
    /\ queue[1].upload_time < queue[2].upload_time
    /\ queue[1].id > queue[2].id

\* C12 (as stated): wait_minutes of every queue entry is the elapsed time
\* between the scan's upload_time and the query time in minutes, rounded to
\* the nearest integer and floored at 0; it is never negative, also when the
\* stored upload_time is later than the query-time clock.
C12_WaitFlooredAtZero ==
    \A i \in 1..Len(queue) :
        /\ queue[i].wait_minutes >= 0
        /\ queue[i].wait_minutes =
               Max2(0, SqlRoundMinutes(now - queue[i].upload_time))

(***************************************************************************)
(* SpecStore: the two collections of HybridRAGStore, written by            *)
(* add_hospital_case / add_patient_record and read by                      *)
(* find_similar_hospital_cases / get_patient_history, one call at a time   *)
(*                                                                         *)
(* insert() is given no uuid, so the store draws a random one, and         *)
(* fetch_objects is given no sort: the place of a new record among the     *)
(* fetched ones is the store's choice.  patient_store is kept in the order *)
(* fetch_objects lists the records, and a new record goes to either end.   *)
(* scan_history is stored as JSON text and read back with json.loads; for  *)
(* the lists of entries written here that round trip gives the list back.  *)
(***************************************************************************)
MaxWrites == 2


\* the patient_data dict add_scan_to_rag builds (lines 246-262), or a profile
\* of the seed data
PatientData(pid, age, gender, chronic, risks, scan_history, total) ==
    [patient_id |-> pid, age |-> age, gender |-> gender,
     chronic_conditions |-> chronic, risk_factors |-> risks,
     scan_history |-> scan_history, total_previous_scans |-> total]

PatientWrites ==
    {PatientData("P1", Some(70), Some("M"), <<>>, <<"smoker">>,
                 <<ScanEntry(<<"Effusion">>, 70, "urgent")>>, 1),
     PatientData("P1", None, None, <<>>, <<"age", "", "smoker">>,
                 <<ScanEntry(<<>>, 10, "routine")>>, 2),
     PatientData("P1", Some(40), Some("F"), <<"COPD">>, <<"age">>,
                 <<ScanEntry(<<"Pneumothorax">>, 100, "immediate")>>, 0),
     PatientData("P1", None, None, <<>>, <<>>, <<>>, 0),
     PatientData("P2", Some(55), Some("F"), <<>>, <<"diabetes">>,
                 <<ScanEntry(<<"Fracture">>, 30, "routine")>>, 5)}

\* the record one of many earlier uploads of P1 left
EarlierVisit ==
    PatientData("P1", Some(70), Some("M"), <<>>, <<"smoker">>,
                <<ScanEntry(<<"Atelectasis">>, 50, "routine")>>, 0)

\* add_patient_record, lines 167-179: the properties that are inserted
StoredRecord(patient_data) ==
    [patient_id |-> patient_data.patient_id,
     age |-> IF patient_data.age = None THEN 0 ELSE patient_data.age.v,
     gender |-> IF patient_data.gender = None THEN "" ELSE patient_data.gender.v,
     chronic_conditions |-> patient_data.chronic_conditions,
     risk_factors |-> patient_data.risk_factors,
     scan_history |-> patient_data.scan_history,
     total_previous_scans |-> patient_data.total_previous_scans]

\* collection.data.insert(properties): one new object, placed by its uuid
MutantInsertRecord(store, record, first) ==
    IF \E i \in 1..Len(store) : store[i].patient_id = record.patient_id
    THEN [i \in 1..Len(store) |->
              IF store[i].patient_id = record.patient_id THEN record ELSE store[i]]
    ELSE Append(store, record)
InsertRecord(store, record, first) ==
    IF first THEN <<record>> \o store ELSE Append(store, record)

Varied(log) == Cardinality({i \in 1..Len(log) : log[i] # EarlierVisit})

InitStore ==
    /\ \E prior \in {0, FETCH_LIMIT - 1} :
           /\ writes = [i \in 1..prior |-> EarlierVisit]
           /\ patient_store = [i \in 1..prior |-> StoredRecord(EarlierVisit)]
    /\ hospital_store = {}
    /\ lookup = NoLookup
    /\ uploader = <<>>
    /\ pc = "idle" /\ patient_id = NoPatient /\ rag_context = EmptyRag
    /\ prompt = NoPrompt /\ assessment = NoAssessment /\ path = "none"
    /\ IdleFallback /\ IdleParse /\ IdleQueue /\ IdleGetter /\ IdleUpload

\* add_hospital_case: insert one case, or raise when the store does
add_hospital_case ==
    /\ lookup = NoLookup
    /\ Cardinality(hospital_store) < MaxCases
    /\ \E fails \in BOOLEAN :
           IF fails
           THEN /\ lookup' = [op |-> "add_hospital_case", outcome |-> Raise("Exception")]
                /\ UNCHANGED hospital_store
           ELSE /\ lookup' = [op |-> "add_hospital_case", outcome |-> Return(None)]
                /\ hospital_store' = hospital_store \cup {Cardinality(hospital_store) + 1}
    /\ UNCHANGED <<writes, uploader, patient_store, pc, patient_id, rag_context, prompt,
                   assessment, path, fallbackVars, parseVars, queueVars, getterVars,
                   uploadVars>>

\* add_patient_record: insert one record, or raise when the store does
add_patient_record ==
    /\ lookup = NoLookup
    /\ Varied(writes) < MaxWrites
    /\ \E patient_data \in PatientWrites, fails \in BOOLEAN, first \in BOOLEAN :
           IF fails
           THEN /\ lookup' = [op |-> "add_patient_record", outcome |-> Raise("Exception")]
                /\ UNCHANGED <<writes, patient_store>>
           ELSE /\ lookup' = [op |-> "add_patient_record", outcome |-> Return(None)]
                /\ writes' = Append(writes, patient_data)
                /\ patient_store' =
                       InsertRecord(patient_store, StoredRecord(patient_data), first)
    /\ UNCHANGED <<uploader, hospital_store, pc, patient_id, rag_context, prompt,
                   assessment, path, fallbackVars, parseVars, queueVars, getterVars,
                   uploadVars>>

\* find_similar_hospital_cases(current_conditions, n_results)
find_similar_hospital_cases ==
    /\ lookup = NoLookup
    /\ \E current_conditions \in {<<>>, <<"Pneumothorax">>},
          n_results \in {1, N_RESULTS}, fails \in BOOLEAN :
         \E ranking \in DistinctSeqs(hospital_store, n_results) :
           lookup' = [op |-> "find_similar_hospital_cases",
                      current_conditions |-> current_conditions,
                      n_results |-> n_results,
                      fails |-> fails,
                      call |-> FindSimilar(hospital_store, current_conditions,
                                           n_results, ranking, fails)]
    /\ UNCHANGED <<writes, uploader, hospital_store, patient_store, pc, patient_id,
                   rag_context, prompt, assessment, path, fallbackVars, parseVars,
                   queueVars, getterVars, uploadVars>>

\* get_patient_history(patient_id)
get_patient_history ==
    /\ lookup = NoLookup
    /\ \E pid \in {"P1", "P2"}, fails \in BOOLEAN :
           lookup' = [op |-> "get_patient_history",
                      patient_id |-> pid,
                      fails |-> fails,
                      outcome |-> GetPatientHistory(patient_store, pid, fails)]
    /\ UNCHANGED <<writes, uploader, hospital_store, patient_store, pc, patient_id,
                   rag_context, prompt, assessment, path, fallbackVars, parseVars,
                   queueVars, getterVars, uploadVars>>

\* the caller has the outcome; the next call can be made
StoreCallReturns ==
    /\ lookup # NoLookup
    /\ lookup' = NoLookup
    /\ UNCHANGED <<writes, uploader, hospital_store, patient_store, pc, patient_id,
                   rag_context, prompt, assessment, path, fallbackVars, parseVars,
                   queueVars, getterVars, uploadVars>>

NextStore ==
    \/ add_hospital_case
    \/ add_patient_record
    \/ find_similar_hospital_cases
    \/ get_patient_history
    \/ StoreCallReturns

SpecStore == InitStore /\ [][NextStore]_vars

(***************************************************************************)
(* Claims about the store                                                  *)
(***************************************************************************)
HistoryReturned ==
    /\ lookup.op = "get_patient_history"
    /\ lookup.outcome.kind = "return"
    /\ lookup.outcome.value # None

MaxOf(S) == CHOOSE m \in S : \A x \in S : x <= m

Elements(seq) == {seq[i] : i \in 1..Len(seq)}

\* the calls that wrote an age (a gender) for pid, by their place in call order
WroteAge(pid) ==
    {i \in 1..Len(writes) : writes[i].patient_id = pid /\ writes[i].age # None}
WroteGender(pid) ==
    {i \in 1..Len(writes) : writes[i].patient_id = pid /\ writes[i].gender # None}

\* C13 (as stated): after any sequence of record appends for one patient
\* identifier, get_patient_history returns as age and as gender the value of
\* the most recently written record that supplied a non-null value; a later
\* record written with unknown age or gender never overrides an earlier
\* known value.
C13_LatestKnownDemographics ==
    HistoryReturned =>
        LET pid == lookup.patient_id
            history == lookup.outcome.value
        IN  /\ WroteAge(pid) # {} =>
                   history.age = writes[MaxOf(WroteAge(pid))].age.v
            /\ WroteGender(pid) # {} =>
                   history.gender = writes[MaxOf(WroteGender(pid))].gender.v

\* the first place (record, position) at which risk factor x is fetched
FirstSeen(records, x) ==
    LET i == CHOOSE i \in 1..Len(records) :
                 /\ x \in Elements(records[i].risk_factors)
                 /\ \A j \in 1..(i - 1) : x \notin Elements(records[j].risk_factors)
        k == CHOOSE k \in 1..Len(records[i].risk_factors) :
                 /\ records[i].risk_factors[k] = x
                 /\ \A m \in 1..(k - 1) : records[i].risk_factors[m] # x
    IN  <<i, k>>

Earlier(p, q) == p[1] < q[1] \/ (p[1] = q[1] /\ p[2] < q[2])

Reorderings(seq) ==
    {[i \in 1..Len(seq) |-> seq[f[i]]] :
        f \in {g \in [1..Len(seq) -> 1..Len(seq)] :
                 \A i, j \in 1..Len(seq) : i # j => g[i] # g[j]}}

EmptyMerge ==
    [scan_history |-> <<>>, age |-> 0, gender |-> "",
     total_previous_scans |-> 0, risk_factors |-> <<>>]

RECURSIVE Flatten(_)
Flatten(seqs) ==
    IF seqs = <<>> THEN <<>>
    ELSE IF Len(seqs) = 1 THEN seqs[1]
    ELSE LET half == Len(seqs) \div 2
         IN  Flatten(SubSeq(seqs, 1, half)) \o Flatten(SubSeq(seqs, half + 1, Len(seqs)))

\* C15 (as stated): get_patient_history merges all stored records of the
\* identifier, not a subset: the merged scan_history is the concatenation, in
\* storage order, of the scan entries of every record ever appended for the
\* identifier, however many records there are.
C15_AllRecordsMerged ==
    HistoryReturned =>
        LET pid == lookup.patient_id
            stored == SelectRecords(patient_store, pid)
            written == SelectRecords(writes, pid)
            history == lookup.outcome.value
        IN  /\ Len(stored) = Len(written)
            /\ history.scan_history =
                   Flatten([i \in 1..Len(stored) |-> stored[i].scan_history])
            /\ Len(history.scan_history) =
                   Len(Flatten([i \in 1..Len(written) |-> written[i].scan_history]))

\* C16: get_patient_history never raises.  It returns None when the
\* identifier has no stored record and when the store fails, and a merged
\* history (never None) when a record is stored and the store answers, also
\* when every field of that history is empty.
C16_HistoryLookupNeverRaises ==
    lookup.op = "get_patient_history" =>
        /\ lookup.outcome.kind = "return"
        /\ lookup.outcome.value = None <=>
               (lookup.fails \/ SelectRecords(patient_store, lookup.patient_id) = <<>>)
        /\ lookup.outcome.value # None => lookup.outcome.value.kind = "history"

\* the only record of the patient has nothing but the identifier
C16_Witness ==
    /\ HistoryReturned
    /\ Len(SelectRecords(patient_store, lookup.patient_id)) = 1
    /\ lookup.outcome.value.age = 0
    /\ lookup.outcome.value.gender = ""
    /\ lookup.outcome.value.scan_history = <<>>
    /\ lookup.outcome.value.risk_factors = <<>>
    /\ lookup.outcome.value.chronic_conditions = <<>>

\* C17: find_similar_hospital_cases with no condition names returns the
\* empty sequence without querying the store (so an evaluation of empty
\* findings reports hospital_cases_used = 0); with condition names a failure
\* of the store is caught and gives the empty sequence, nothing is raised, and
\* at most n_results cases come back.
C17_SimilarCasesTotalAndBounded ==
    /\ lookup.op = "find_similar_hospital_cases" =>
           /\ lookup.call.outcome.kind = "return"
           /\ lookup.call.queried = (lookup.current_conditions # <<>>)
           /\ lookup.current_conditions = <<>> => lookup.call.outcome.value = <<>>
           /\ lookup.fails => lookup.call.outcome.value = <<>>
           /\ Len(lookup.call.outcome.value) <= lookup.n_results
           /\ Elements(lookup.call.outcome.value) \subseteq hospital_store
    /\ (pc = "done" /\ conditions = <<>>) => assessment.hospital_cases_used = 0

\* two cases are stored and the query asks for one
C17_Witness ==
    /\ lookup.op = "find_similar_hospital_cases"
    /\ lookup.current_conditions # <<>>
    /\ ~lookup.fails
    /\ Cardinality(hospital_store) = 2
    /\ lookup.n_results = 1
    /\ Len(lookup.call.outcome.value) = 1

(***************************************************************************)
(* SpecAppend: concurrent uploads, each in HybridRAGStore.add_scan_to_rag  *)
(* (called from the upload handler, one thread per request).  A request    *)
(* inserts its hospital case, then, when it has a patient identifier, its  *)
(* patient record; each insert is one call to the store and can raise.     *)
(***************************************************************************)
MaxUploads == 2

Uploads == 1..MaxUploads

\* the arguments of add_scan_to_rag
RagCall(pid, age, gender, risks, names, score, action, total) ==
    [patient_identifier |-> pid, patient_age |-> age, patient_gender |-> gender,
     risk_factors |-> risks, conditions |-> names, urgency_score |-> score,
     recommended_action |-> action, total_previous_scans |-> total]

RagCalls ==
    {RagCall("P1", Some(70), Some("M"), <<"smoker">>, <<"Effusion">>, 70,
             "urgent", 1),
     RagCall("P1", None, None, <<"diabetes">>, <<"Pneumothorax">>, 100,
             "", 2),
     RagCall("", Some(40), Some("F"), <<>>, <<>>, 10, "routine", 0)}

\* add_scan_to_rag, lines 223-224: recommended_action or "pending review"
OutcomeText(recommended_action) ==
    IF recommended_action = "" THEN "pending review" ELSE recommended_action

\* add_scan_to_rag, lines 246-262: the patient_data of this scan
RagPatientData(call) ==
    PatientData(call.patient_identifier, call.patient_age, call.patient_gender,
                <<>>, call.risk_factors,
                <<ScanEntry(call.conditions, call.urgency_score,
                            OutcomeText(call.recommended_action))>>,
                call.total_previous_scans)

appendFrame == <<pc, patient_id, rag_context, prompt, assessment, path, fallbackVars,
                 parseVars, queueVars, getterVars, uploadVars>>

InitAppend ==
    /\ uploader \in [Uploads -> {[pc |-> "hospital_case", call |-> call] :
                                      call \in RagCalls}]
    /\ \E prior \in {0, 1} :
           /\ writes = [i \in 1..prior |-> EarlierVisit]
           /\ patient_store = [i \in 1..prior |-> StoredRecord(EarlierVisit)]
    /\ hospital_store = {}
    /\ lookup = NoLookup
    /\ pc = "idle" /\ patient_id = NoPatient /\ rag_context = EmptyRag
    /\ prompt = NoPrompt /\ assessment = NoAssessment /\ path = "none"
    /\ IdleFallback /\ IdleParse /\ IdleQueue /\ IdleGetter /\ IdleUpload

\* self.add_hospital_case({...}), then the test of patient_identifier
InsertHospitalCase ==
    /\ \E t \in Uploads :
           /\ uploader[t].pc = "hospital_case"
           /\ uploader' = [uploader EXCEPT ![t].pc =
                              IF uploader[t].call.patient_identifier # ""
                              THEN "patient_record" ELSE "done"]
    /\ hospital_store' = hospital_store \cup {Cardinality(hospital_store) + 1}
    /\ lookup' = NoLookup
    /\ UNCHANGED <<writes, patient_store, appendFrame>>

\* self.add_patient_record(patient_data)
InsertPatientRecord ==
    /\ \E t \in Uploads, first \in BOOLEAN :
           /\ uploader[t].pc = "patient_record"
           /\ uploader' = [uploader EXCEPT ![t].pc = "done"]
           /\ writes' = Append(writes, RagPatientData(uploader[t].call))
           /\ patient_store' =
                  InsertRecord(patient_store,
                               StoredRecord(RagPatientData(uploader[t].call)), first)
    /\ lookup' = NoLookup
    /\ UNCHANGED <<hospital_store, appendFrame>>

\* either insert raises: add_scan_to_rag re-raises and the handler logs it
InsertRaises ==
    /\ \E t \in Uploads :
           /\ uploader[t].pc \in {"hospital_case", "patient_record"}
           /\ uploader' = [uploader EXCEPT ![t].pc = "raised"]
    /\ lookup' = NoLookup
    /\ UNCHANGED <<writes, hospital_store, patient_store, appendFrame>>

\* a later evaluation reads the history of the patient
ReadHistory ==
    /\ \E fails \in BOOLEAN :
           lookup' = [op |-> "get_patient_history",
                      patient_id |-> "P1",
                      fails |-> fails,
                      outcome |-> GetPatientHistory(patient_store, "P1", fails)]
    /\ UNCHANGED <<writes, uploader, hospital_store, patient_store, appendFrame>>

NextAppend ==
    \/ InsertHospitalCase
    \/ InsertPatientRecord
    \/ InsertRaises
    \/ ReadHistory

SpecAppend == InitAppend /\ [][NextAppend]_vars

Appended(t) ==
    uploader[t].pc = "done" /\ uploader[t].call.patient_identifier # ""

Occurrences(seq, x) == Cardinality({i \in 1..Len(seq) : seq[i] = x})

Extensions == {"png", "gif"}

ALLOWED_EXTENSIONS == {"jpg", "jpeg", "png"}

\* what the saved bytes are to the classifier
Images == {"xray", "unreadable", "inference fails"}

\* the patient_age form field: absent, empty, a number, not a number
AgeTexts == {None, Some(""), Some("70"), Some("abc")}

\* "PAT-" + str(int(time.time() * 1000)) at the two instants of the model
GeneratedIdentifiers == <<"PAT-1", "PAT-2">>

\* what the reasoning-memory update of the request meets: the store works,
\* the store is down (get_rag_store or the hospital case insert raises), or
\* the hospital case is inserted and the patient record insert raises
RagCourses == {"up", "down", "record fails"}

\* a request that passes every check of the handler; add_scan_ok tells
\* whether the INSERT into scans goes through
PlainRequest ==
    [has_file |-> TRUE, extension |-> "png", image |-> "xray",
     facility_known |-> TRUE, patient_age |-> None, patient_id |-> "",
     patient_name |-> None, stamp |-> 1, urgency_score |-> 100,
     add_scan_ok |-> TRUE, rag |-> "up"]

\* requests that differ in the patient fields and in how far they get
UploadRequests ==
    {[PlainRequest EXCEPT !.has_file = FALSE],
     [PlainRequest EXCEPT !.extension = "gif"],
     [PlainRequest EXCEPT !.facility_known = FALSE],
     [PlainRequest EXCEPT !.patient_age = Some("abc")]}
    \cup
    {[PlainRequest EXCEPT !.patient_age = age, !.patient_id = id,
                         !.patient_name = name, !.stamp = stamp,
                         !.image = course[1], !.add_scan_ok = course[2],
                         !.rag = course[3]] :
        age \in AgeTexts \ {Some("abc")}, id \in {"", "P1"},
        name \in {None, Some("Ann")}, stamp \in DOMAIN GeneratedIdentifiers,
        course \in {<<image, TRUE, "up">> : image \in Images \ {"xray"}}
                   \cup {<<"xray", FALSE, "up">>}
                   \cup {<<"xray", TRUE, rag>> : rag \in RagCourses}}

\* allowed_file(file.filename)
allowed_file(extension) == extension \in ALLOWED_EXTENSIONS

\* int(age_raw) if age_raw not in (None, "") else None
ParseAge(age_raw) ==
    IF age_raw = None \/ age_raw = Some("") THEN Return(None)
    ELSE IF age_raw = Some("70") THEN Return(Some(70))
    ELSE Raise("ValueError")

RowOf(table, identifier) ==
    CHOOSE i \in 1..Len(table) : table[i].patient_identifier = identifier

HasRow(table, identifier) ==
    \E i \in 1..Len(table) : table[i].patient_identifier = identifier

\* database.get_or_create_patient: update the fields given, or insert
get_or_create_patient(table, identifier, age, name) ==
    IF HasRow(table, identifier)
    THEN [table EXCEPT ![RowOf(table, identifier)] =
              [@ EXCEPT !.age = IF age # None THEN age ELSE @,
                        !.name = IF name # None THEN name ELSE @]]
    ELSE Append(table, PatientRow(identifier, age, name, 0))

\* database.update_patient_scan_count
update_patient_scan_count(table, identifier) ==
    [table EXCEPT ![RowOf(table, identifier)].total_scans = @ + 1]

\* lines 235-258: the identifier the scan is linked to ("" for none)
PatientIdentifier(request, age) ==
    IF request.patient_id # "" THEN request.patient_id
    ELSE IF request.patient_name # None \/ age # None
         THEN GeneratedIdentifiers[request.stamp]
         ELSE ""

\* lines 308-325: the add_scan_to_rag call of this upload
UploadRagCall(request, identifier, table) ==
    RagCall(identifier,
            IF identifier # "" THEN table[RowOf(table, identifier)].age
                               ELSE None,
            None, <<>>, <<"Effusion">>, request.urgency_score, "",
            IF identifier # "" THEN table[RowOf(table, identifier)].total_scans
                               ELSE 0)

Rejected(message) == [status |-> 400, error |-> message, scan_id |-> 0]

Failed(message) == [status |-> 500, error |-> message, scan_id |-> 0]

Accepted(scan_id) == [status |-> 200, error |-> "", scan_id |-> scan_id]

uploadFrame == <<pc, patient_id, rag_context, prompt, assessment, path, now, queue,
                 fallbackVars, parseVars, getterVars>>

InitUpload ==
    /\ patients \in {<<>>, <<PatientRow("P1", Some(40), None, 1)>>}
    /\ files = {}
    /\ response = NoResponse
    /\ scans = <<>> /\ next_scan_id = 1 /\ now = 0 /\ queue = <<>>
    /\ hospital_store = {} /\ patient_store = <<>>
    /\ writes = <<>> /\ lookup = NoLookup /\ uploader = <<>>
    /\ pc = "idle" /\ patient_id = NoPatient /\ rag_context = EmptyRag
    /\ prompt = NoPrompt /\ assessment = NoAssessment /\ path = "none"
    /\ IdleFallback /\ IdleParse /\ IdleGetter

\* the request is refused before anything is written (lines 213-233)
RefusedAtOnce(request) ==
    IF ~request.has_file THEN Rejected("No file provided")
    ELSE IF ~allowed_file(request.extension)
         THEN Rejected("Invalid file type. Use jpg, jpeg, or png")
    ELSE IF ~request.facility_known THEN Rejected("facility_id not found")
    ELSE IF ParseAge(request.patient_age).kind = "raise"
         THEN Rejected("invalid literal for int()")
    ELSE NoResponse

\* lines 353-361: the handler's except clauses
MutantOnException(exc) == Accepted(0)
OnException(exc) ==
    IF exc \in {"FileNotFoundError", "ValueError"} THEN Rejected("Cannot open image")
    ELSE IF exc = "RuntimeError" THEN Failed("Analysis failed")
    ELSE Failed("Upload failed")

\* add_scan_to_rag, line 223: case_id = f"scan-{scan_id}"
MutantCaseId(scan_id) == 1
CaseId(scan_id) == scan_id

\* add_scan_to_rag, lines 231-246: the hospital case is inserted
CaseWritten(rag) == rag \in {"up", "record fails"}

\* add_scan_to_rag, lines 246-263: reached only after the hospital case went
\* in, and only with a patient identifier; the insert goes through
MutantRecordWritten(rag, identifier) == rag \in {"up", "down"} /\ identifier # ""
RecordWritten(rag, identifier) == rag = "up" /\ identifier # ""

\* whether the try block of lines 307-327 ended in its except clause
RagRaised(rag, identifier) ==
    rag = "down" \/ (rag = "record fails" /\ identifier # "")

upload ==
    /\ Cardinality(files) < MaxScans
    /\ \E request \in UploadRequests :
         IF RefusedAtOnce(request) # NoResponse
         THEN /\ response' = RefusedAtOnce(request)
              /\ lookup' = NoLookup
              /\ uploader' = <<>>
              /\ UNCHANGED <<patients, files, scans, next_scan_id, hospital_store,
                             patient_store, writes>>
         ELSE LET age == ParseAge(request.patient_age).value
                  identifier == PatientIdentifier(request, age)
                  known == IF identifier # ""
                           THEN get_or_create_patient(patients, identifier, age,
                                                      request.patient_name)
                           ELSE patients
                  counted == IF identifier # ""
                             THEN update_patient_scan_count(known, identifier)
                             ELSE known
                  call == UploadRagCall(request, identifier, counted)
              IN  \* file.save(save_path)
                  /\ files' = files \cup {Cardinality(files) + 1}
                  /\ IF request.image # "xray"
                     THEN \* predict raises: ValueError from preprocess_image,
                          \* or RuntimeError from the inference
                          /\ patients' = known
                          /\ response' = OnException(IF request.image = "unreadable"
                                                     THEN "ValueError"
                                                     ELSE "RuntimeError")
                          /\ lookup' = NoLookup
                          /\ uploader' = <<>>
                          /\ UNCHANGED <<scans, next_scan_id, hospital_store,
                                         patient_store, writes>>
                     ELSE IF ~request.add_scan_ok
                     THEN \* add_scan raises: get_connection rolls back
                          /\ patients' = known
                          /\ response' = OnException("sqlite3.Error")
                          /\ lookup' = [op |-> "add_scan",
                                        outcome |-> Raise("sqlite3.Error")]
                          /\ uploader' = <<>>
                          /\ UNCHANGED <<scans, next_scan_id, hospital_store,
                                         patient_store, writes>>
                     ELSE /\ scans' = Append(scans,
                                             [id |-> next_scan_id,
                                              facility_id |-> 1,
                                              urgency_score |-> request.urgency_score,
                                              upload_time |-> now,
                                              status |-> "pending"])
                          /\ next_scan_id' = next_scan_id + 1
                          /\ lookup' = [op |-> "add_scan",
                                        outcome |-> Return(Some(next_scan_id))]
                          /\ patients' = counted
                          /\ response' = Accepted(next_scan_id)
                          /\ uploader' =
                                 <<[pc |-> IF RagRaised(request.rag, identifier)
                                           THEN "raised" ELSE "done",
                                    call |-> call]>>
                          /\ hospital_store' =
                                 IF CaseWritten(request.rag)
                                 THEN hospital_store \cup {CaseId(next_scan_id)}
                                 ELSE hospital_store
                          /\ IF RecordWritten(request.rag, identifier)
                             THEN /\ writes' = Append(writes, RagPatientData(call))
                                  /\ patient_store' =
                                         InsertRecord(patient_store,
                                                      StoredRecord(RagPatientData(call)),
                                                      FALSE)
                             ELSE UNCHANGED <<writes, patient_store>>
    /\ UNCHANGED uploadFrame

NextUpload == upload

SpecUpload == InitUpload /\ [][NextUpload]_vars

\* C20 (as stated): a request answered with a validation error (400) leaves
\* the patients table, the upload folder, the scans table and both RAG
\* collections as they were before the request.
C20_RejectionLeavesNoState ==
    [][response'.status = 400 =>
          UNCHANGED <<patients, files, scans, hospital_store, patient_store>>]_vars

(***************************************************************************)
(* SpecGetter: lazy construction of a module-level singleton               *)
(*                                                                         *)
(*     global _instance                                                    *)
(*     if _instance is None:                                               *)
(*         _instance = Constructor()                                       *)
(*     return _instance                                                    *)
(*                                                                         *)
(* get_triage_client, get_rag_store and get_model have this body and no    *)
(* lock.  The handlers that call them run in the server's request threads; *)
(* the test, the constructor call and the store into the global are        *)
(* separate steps of a thread (the constructors read files or open         *)
(* connections, where another thread gets to run).                         *)
(***************************************************************************)
MaxCallers == 2

Getters == {"get_triage_client", "get_rag_store", "get_model"}

Callers == 1..MaxCallers

AtCall == [pc |-> "call", made |-> None, got |-> None]

getterFrame == <<fallbackVars, parseVars, evalVars, queueVars, storeVars, uploadVars>>

InitGetter ==
    /\ \E getter \in Getters : instance = [getter |-> getter, object |-> None]
    /\ constructions = 0
    /\ caller = [t \in Callers |-> AtCall]
    /\ IdleFallback /\ IdleParse /\ IdleEval /\ IdleQueue /\ IdleStore /\ IdleUpload

\* if _instance is None:
TestInstance ==
    /\ \E t \in Callers :
           /\ caller[t].pc = "call"
           /\ caller' = [caller EXCEPT ![t].pc =
                            IF instance.object = None THEN "construct" ELSE "return"]
    /\ UNCHANGED <<instance, constructions, getterFrame>>

\* Constructor() returns a new object
Construct ==
    /\ \E t \in Callers :
           /\ caller[t].pc = "construct"
           /\ caller' = [caller EXCEPT ![t].pc = "assign",
                                       ![t].made = Some(constructions + 1)]
    /\ constructions' = constructions + 1
    /\ UNCHANGED <<instance, getterFrame>>

\* Constructor() raises (no API key, no connection, no weights): the
\* exception leaves the getter and the global stays as it is
ConstructorRaises ==
    /\ \E t \in Callers :
           /\ caller[t].pc = "construct"
           /\ caller' = [caller EXCEPT ![t].pc = "raised"]
    /\ UNCHANGED <<instance, constructions, getterFrame>>

\* _instance = <the new object>
AssignInstance ==
    /\ \E t \in Callers :
           /\ caller[t].pc = "assign"
           /\ instance' = [instance EXCEPT !.object = caller[t].made]
           /\ caller' = [caller EXCEPT ![t].pc = "return"]
    /\ UNCHANGED <<constructions, getterFrame>>

\* return _instance
ReturnInstance ==
    /\ \E t \in Callers :
           /\ caller[t].pc = "return"
           /\ caller' = [caller EXCEPT ![t].pc = "done", ![t].got = instance.object]
    /\ UNCHANGED <<instance, constructions, getterFrame>>

\* the thread whose call raised serves another request and calls again
CallAgain ==
    /\ \E t \in Callers :
           /\ caller[t].pc = "raised"
           /\ caller' = [caller EXCEPT ![t] = AtCall]
    /\ UNCHANGED <<instance, constructions, getterFrame>>

NextGetter ==
    \/ TestInstance
    \/ Construct
    \/ ConstructorRaises
    \/ AssignInstance
    \/ ReturnInstance
    \/ CallAgain

SpecGetter == InitGetter /\ [][NextGetter]_vars

\* C18 (as stated): lazy construction of the singletons is safe under
\* concurrent first use: for every interleaving of the requests that call a
\* getter the constructor produces at most one instance, and every caller
\* obtains the same instance.
C18_SingleConstruction ==
    /\ constructions <= 1
    /\ \A t, u \in Callers :
           (caller[t].pc = "done" /\ caller[u].pc = "done") =>
               caller[t].got = caller[u].got

(***************************************************************************)
(* SpecPatients: database.get_or_create_patient called by concurrent       *)
(* requests.  Each call opens its own connection; its SELECT, and then     *)
(* its UPDATE or INSERT, are separate statements, and another call's       *)
(* statements can come between them.  patient_identifier is UNIQUE, and a  *)
(* row's id is its place in the table (AUTOINCREMENT, no row is deleted).  *)
(***************************************************************************)
PatientCalls ==
    [pc : {"select"}, identifier : {"P1", "P2"}, age : {None, Some(70)},
     got : {None}]

patientsFrame == <<fallbackVars, parseVars, evalVars, queueVars, storeVars, instance,
                   constructions, files, response>>

InitPatients ==
    /\ patients \in {<<>>, SeededPatients}
    /\ caller \in [Callers -> PatientCalls]
    /\ instance = None /\ constructions = 0
    /\ files = {} /\ response = NoResponse
    /\ IdleFallback /\ IdleParse /\ IdleEval /\ IdleQueue /\ IdleStore

\* SELECT id FROM patients WHERE patient_identifier = ?, and the test of row
SelectPatient ==
    /\ \E t \in Callers :
           /\ caller[t].pc = "select"
           /\ caller' = [caller EXCEPT ![t].pc =
                            IF HasRow(patients, caller[t].identifier)
                            THEN "update" ELSE "insert"]
    /\ UNCHANGED <<patients, patientsFrame>>

\* the UPDATE of the fields given, commit, return pid
UpdatePatient ==
    /\ \E t \in Callers :
           /\ caller[t].pc = "update"
           /\ patients' = get_or_create_patient(patients, caller[t].identifier,
                                                caller[t].age, None)
           /\ caller' = [caller EXCEPT
                            ![t].pc = "done",
                            ![t].got = Some(RowOf(patients, caller[t].identifier))]
    /\ UNCHANGED patientsFrame

\* the INSERT, commit, return cur.lastrowid: the UNIQUE constraint makes
\* the INSERT raise sqlite3.IntegrityError when the identifier is there by now
InsertPatient ==
    /\ \E t \in Callers :
           /\ caller[t].pc = "insert"
           /\ IF HasRow(patients, caller[t].identifier)
              THEN /\ caller' = [caller EXCEPT ![t].pc = "raised"]
                   /\ UNCHANGED patients
              ELSE /\ patients' = get_or_create_patient(patients, caller[t].identifier,
                                                        caller[t].age, None)
                   /\ caller' = [caller EXCEPT ![t].pc = "done",
                                               ![t].got = Some(Len(patients) + 1)]
    /\ UNCHANGED patientsFrame

\* the thread serves its next request, which calls again
NextPatientCall ==
    /\ \E t \in Callers, call \in PatientCalls :
           /\ caller[t].pc \in {"done", "raised"}
           /\ caller' = [caller EXCEPT ![t] = call]
    /\ UNCHANGED <<patients, patientsFrame>>

NextPatients ==
    \/ SelectPatient
    \/ UpdatePatient
    \/ InsertPatient
    \/ NextPatientCall

SpecPatients == InitPatients /\ [][NextPatients]_vars

\* C28 (as stated): whatever the interleaving of get_or_create_patient
\* calls, no identifier has two rows, no call fails, and every call that
\* returned gave the id of the row of its identifier.
C28_GetOrCreateNeverFails ==
    /\ \A i, j \in 1..Len(patients) :
           patients[i].patient_identifier = patients[j].patient_identifier => i = j
    /\ \A t \in Callers :
           /\ caller[t].pc # "raised"
           /\ caller[t].pc = "done" =>
                  patients[caller[t].got.v].patient_identifier = caller[t].identifier

(***************************************************************************)
(* Claims about the pure functions                                         *)
(***************************************************************************)
HasPayload(text) == \E i \in 1..Len(text) : text[i].tok = "payload"
PayloadOf(text) ==
    IF HasPayload(text)
    THEN text[CHOOSE i \in 1..Len(text) : text[i].tok = "payload"].val
    ELSE NoJson

\* the table's figure for one label, 3 for a label the table does not list
TableFigure(name) == IF name \in DOMAIN URGENCY_MAP THEN URGENCY_MAP[name] ELSE 3

\* Malformed output in the sense of C5: not decodable, decodable but not an
\* object, a required field missing, or a score that is not a number
Malformed(text) ==
    LET p == PayloadOf(text)
    IN  \/ ~HasPayload(text)
        \/ p.kind # "object"
        \/ ~(RequiredFields \subseteq p.has)
        \/ p.obj.urgency_score.t \in {"str", "null", "list"}

\* C5 (as stated): every malformed or non-JSON backend output makes
\* _parse_response return the fixed degraded Assessment (5.0, "urgent", "low",
\* ["parsing_error"]), and no exception leaves _parse_response for any text.
C5_MalformedAlwaysDegrades ==
    parsed # NotRun =>
        /\ parsed.kind = "return"
        /\ Malformed(response_text) =>
               /\ parsed.value.urgency_score = 50
               /\ parsed.value.recommended_action = "urgent"
               /\ parsed.value.confidence = "low"
               /\ parsed.value.risk_factors = <<"parsing_error">>

\* The envelopes of a well-formed response: the JSON document alone, or inside
\* one code fence, white space around either.
WellFormedStyles == {"bare", "padded", "fenced_json", "fenced_plain", "fenced_padded"}

WellFormed(text) ==
    LET p == PayloadOf(text)
    IN  /\ HasPayload(text)
        /\ \E style \in WellFormedStyles : text = Wrap(style, p)
        /\ p.kind = "object"
        /\ RequiredFields \subseteq p.has
        /\ p.obj.urgency_score.t \in {"num", "numstr"}

\* C6: for every well-formed backend response the returned urgency_score is
\* the backend's value clamped into [1,10] (below 1 becomes 1, above 10 becomes
\* 10, in range unchanged), and reasoning, recommended_action, risk_factors and
\* confidence are the backend's ("medium" when it sent no confidence).
C6_WellFormedScoreIsClamped ==
    (parsed # NotRun /\ WellFormed(response_text)) =>
        LET o == PayloadOf(response_text).obj
            v == o.urgency_score.v
        IN  /\ parsed.kind = "return"
            /\ parsed.value.urgency_score =
                   (IF v < 10 THEN 10 ELSE IF v > 100 THEN 100 ELSE v)
            /\ parsed.value.reasoning = o.reasoning
            /\ parsed.value.recommended_action = o.recommended_action
            /\ parsed.value.risk_factors = o.risk_factors
            /\ parsed.value.confidence =
                   (IF "confidence" \in PayloadOf(response_text).has
                    THEN o.confidence ELSE "medium")

\* a fenced response whose score 15 came back as 10, and one whose 0 came back as 1
C6_Witness ==
    /\ parsed.kind = "return"
    /\ WellFormed(response_text)
    /\ response_text[1].tok = "fence"
    /\ PayloadOf(response_text).obj.urgency_score = [t |-> "num", v |-> 150]
    /\ parsed.value.urgency_score = 100
    /\ parsed.value.risk_factors = <<"age", "COPD">>

\* C7: _fallback_urgency returns for every finding list; its urgency_score is
\* the maximum over the findings of the table's figure (3 for a finding the
\* table does not list), and exactly 0 when the list is empty.
C7_FallbackScoreIsTableMax ==
    fallback # NotRun =>
        /\ fallback.kind = "return"
        /\ IF conditions = <<>>
           THEN fallback.value.urgency_score = 0
           ELSE /\ \E i \in 1..Len(conditions) :
                       fallback.value.urgency_score = 10 * TableFigure(conditions[i].name)
                /\ \A i \in 1..Len(conditions) :
                       fallback.value.urgency_score >= 10 * TableFigure(conditions[i].name)

\* two findings, the unlisted one first: the maximum is the second one's 8
C7_Witness ==
    /\ fallback.kind = "return"
    /\ Len(conditions) = 2
    /\ conditions[1].name = "Unlisted"
    /\ conditions[2].name = "Edema"
    /\ fallback.value.urgency_score = 80

\* C8: _fallback_urgency's recommended_action is a function of its urgency
\* alone: "immediate" from 9, "urgent" from 7 to below 9, "routine" otherwise
\* (urgency 0 of the empty list included); 7 is "urgent", 9 is "immediate";
\* its confidence is always "medium".
C8_FallbackActionByThreshold ==
    /\ ActionFor(9) = "immediate" /\ ActionFor(10) = "immediate"
    /\ ActionFor(7) = "urgent" /\ ActionFor(8) = "urgent"
    /\ \A u \in 0..6 : ActionFor(u) = "routine"
    /\ fallback # NotRun =>
           /\ fallback.value.confidence = "medium"
           /\ fallback.value.recommended_action =
                  (IF fallback.value.urgency_score >= 90 THEN "immediate"
                   ELSE IF fallback.value.urgency_score >= 70 THEN "urgent"
                   ELSE "routine")

\* a finding list whose maximum is exactly 7
C8_Witness ==
    /\ fallback.kind = "return"
    /\ conditions # <<>>
    /\ fallback.value.urgency_score = 70
    /\ fallback.value.recommended_action = "urgent"
    /\ fallback.value.confidence = "medium"

(***************************************************************************)
(* Claims about the evaluation                                             *)
(***************************************************************************)
\* an Assessment a clinician can act on: a score on the scale, a rationale,
\* an action, risk factors and a confidence
Usable(a) ==
    /\ a.urgency_score \in 0..100
    /\ a.reasoning.kind \in {"backend", "unparseable", "fallback", "no_findings",
                             "rag_failed"}
    /\ a.recommended_action # ""
    /\ a.risk_factors \in Seq({"age", "COPD", "parsing_error"}
                              \cup {PathologyOrder[i] : i \in 1..Len(PathologyOrder)})
    /\ a.confidence # ""

\* C2: whatever fails (client construction, store construction, either lookup,
\* the backend call, an empty or a malformed answer), the evaluation is never
\* stopped by the failure and what it returns is a usable Assessment.
C2_AlwaysAnAssessment ==
    /\ pc \in {"start", "rag", "call", "await", "done"}
    /\ pc \in {"start", "rag", "call"} => ENABLED NextEval
    /\ pc = "done" => /\ path \in {"reasoning", "degraded", "fallback", "xray_fallback"}
                      /\ Usable(assessment)

\* fully offline: findings present, nothing retrieved, the backend call failed
C2_Witness ==
    /\ pc = "done"
    /\ conditions # <<>>
    /\ hospital_store # {}
    /\ rag_context = EmptyRag
    /\ path = "fallback"
    /\ assessment.urgency_score = 100

\* C3: when the backend call fails inside assess_urgency_hybrid_rag the result
\* is _fallback_urgency(findings), confidence "medium"; on that path and on the
\* reasoning path alike it carries rag_enabled = true, hospital_cases_used =
\* the number of retrieved cases and patient_history_found.  Pneumothorax alone,
\* no patient, backend down: 10, "immediate", "medium", true, false.
C3_FallbackWithProvenance ==
    (pc = "done" /\ path \in {"reasoning", "degraded", "fallback"}) =>
        /\ assessment.rag_enabled
        /\ assessment.hospital_cases_used = Len(rag_context.hospital_cases)
        /\ assessment.patient_history_found = (rag_context.patient_history.kind = "history")
        /\ path = "fallback" =>
               /\ assessment.confidence = "medium"
               /\ assessment.urgency_score = FallbackUrgency(conditions).urgency_score
               /\ assessment.reasoning = FallbackUrgency(conditions).reasoning
               /\ assessment.recommended_action =
                      FallbackUrgency(conditions).recommended_action
               /\ assessment.risk_factors = FallbackUrgency(conditions).risk_factors
        /\ (path = "fallback" /\ patient_id = NoPatient
              /\ Len(conditions) = 1 /\ conditions[1].name = "Pneumothorax") =>
               /\ assessment.urgency_score = 100
               /\ assessment.recommended_action = "immediate"
               /\ assessment.confidence = "medium"
               /\ ~assessment.patient_history_found

\* the backend failed after two cases and a history had been retrieved
C3_Witness ==
    /\ pc = "done"
    /\ path = "fallback"
    /\ Len(rag_context.hospital_cases) = 2
    /\ rag_context.patient_history.kind = "history"
    /\ assessment.hospital_cases_used = 2
    /\ assessment.patient_history_found
    /\ assessment.confidence = "medium"

\* C11: in what assess_urgency_hybrid_rag returns, patient_history_found is
\* false exactly when the history lookup gave None: no patient identifier, no
\* stored record of the identifier, or a failed lookup.  It is true for every
\* merged history, also one whose scan_history is empty.
C11_HistoryFoundIffNotAbsent ==
    (pc = "done" /\ path \in {"reasoning", "degraded", "fallback"}) =>
        /\ assessment.patient_history_found = (rag_context.patient_history # None)
        /\ (patient_id = NoPatient \/ SelectRecords(patient_store, patient_id) = <<>>)
               => ~assessment.patient_history_found
        /\ assessment.patient_history_found =>
               rag_context.patient_history = MergedHistory(patient_store, patient_id)
        /\ rag_context.patient_history # None =>
               rag_context.patient_history.kind = "history"

\* a stored record without scans: the merged history has an empty
\* scan_history and is reported as found
C11_Witness ==
    /\ pc = "done"
    /\ path = "reasoning"
    /\ rag_context.patient_history # None
    /\ rag_context.patient_history.scan_history = <<>>
    /\ assessment.patient_history_found

\* C4 (as stated): every started evaluation eventually returns an Assessment,
\* even when the reasoning backend never responds, because the backend call is
\* bounded by a timeout that is handled like a backend error.
C4_EveryEvaluationReturns == <>(pc = "done")

\* C9 (as stated): every returned urgency_score is in [1,10] or exactly 0, and
\* it is 0 exactly when the findings list is empty.
C9_ZeroExactlyWhenNoFindings ==
    pc = "done" =>
        /\ assessment.urgency_score = 0 \/ assessment.urgency_score \in 10..100
        /\ assessment.urgency_score = 0 <=> conditions = <<>>

\* C9 (amended): every returned urgency_score is in [1,10] or exactly 0; it is
\* 0 only when the findings list is empty, and with an empty findings list it
\* is 0 when a rule-based fallback produced it, while an answer parsed from the
\* backend (or the degraded parse result) is in [1,10] even without findings.
C9_ZeroOnlyWhenNoFindings ==
    pc = "done" =>
        /\ assessment.urgency_score = 0 \/ assessment.urgency_score \in 10..100
        /\ assessment.urgency_score = 0 => conditions = <<>>
        /\ (conditions = <<>> /\ path \in {"fallback", "xray_fallback"}) =>
               assessment.urgency_score = 0
        /\ path \in {"reasoning", "degraded"} => assessment.urgency_score \in 10..100

\* no findings, and the backend's 5.5 is the score
C9_Witness ==
    /\ pc = "done"
    /\ conditions = <<>>
    /\ path = "reasoning"
    /\ assessment.urgency_score = 55

\* C10 (as stated): every returned Assessment has recommended_action in
\* {immediate, urgent, routine} and confidence in {high, medium, low}, whatever
\* the backend wrote in those fields.
C10_ActionAndConfidenceInRange ==
    pc = "done" =>
        /\ assessment.recommended_action \in {"immediate", "urgent", "routine"}
        /\ assessment.confidence \in {"high", "medium", "low"}

\* C22: an evaluation produces its Assessment exactly once, in the step that
\* returns, and no step of it, on any path (reasoning, degraded, fallback or
\* the classifier's own rules), changes the stored HospitalCases or
\* PatientRecords.
C22_EvaluationLeavesStores ==
    [][/\ UNCHANGED <<hospital_store, patient_store>>
       /\ (assessment' # assessment) <=> (pc # "done" /\ pc' = "done")]_vars

\* an evaluation that read both stores and returned the backend's answer
C22_Witness ==
    /\ pc = "done"
    /\ path = "reasoning"
    /\ assessment.hospital_cases_used > 0
    /\ assessment.patient_history_found
    /\ Len(patient_store) > 1

\* C25 (as stated): the request built for a patient with history lists at
\* most 3 prior scans, and they are the last entries of the merged
\* scan_history (its 3 most recent ones when it has more than 3).
C25_PromptListsMostRecentScans ==
    (prompt # NoPrompt /\ prompt.has_history) =>
        LET merged == rag_context.patient_history.scan_history
        IN  /\ Len(prompt.prior_scans) <= 3
            /\ prompt.prior_scans =
                   SubSeq(merged, Len(merged) - Min2(3, Len(merged)) + 1, Len(merged))

\* C27 (as stated): the two rule-based scorers agree: for the findings of an
\* evaluation, the urgency_score and recommended_action that _fallback_urgency
\* gives (backend call failed) equal those of XRayModel's own rule-based path
\* (triage client not obtained), whichever of the two produced the result.
C27_FallbackScorersAgree ==
    (pc = "done" /\ path \in {"fallback", "xray_fallback"}) =>
        /\ assessment.urgency_score = FallbackUrgency(conditions).urgency_score
        /\ assessment.urgency_score = XRayFallback(conditions).urgency_score
        /\ assessment.recommended_action = FallbackUrgency(conditions).recommended_action
        /\ assessment.recommended_action = XRayFallback(conditions).recommended_action

\* C23: update_scan_status changes only the status field of the scan it is
\* given: the addressed row keeps every other field (its urgency_score
\* among them), every other row is unchanged, the answer is 200; when no row
\* has the id, nothing changes and the answer is 404 (the function returned
\* False).
C23_StatusUpdateOnly ==
    [][(response' # NoResponse /\ response'.op = "scan_status") =>
          IF \E i \in 1..Len(scans) : scans[i].id = response'.scan_id
          THEN /\ response'.status = 200
               /\ Len(scans') = Len(scans)
               /\ \A i \in 1..Len(scans) :
                      /\ scans[i].id # response'.scan_id => scans'[i] = scans[i]
                      /\ [scans'[i] EXCEPT !.status = scans[i].status] = scans[i]
          ELSE /\ response'.status = 404
               /\ scans' = scans]_vars

\* scan 1 of two was set to reviewed
C23_Witness ==
    /\ response # NoResponse
    /\ response.op = "scan_status"
    /\ response.status = 200
    /\ Len(scans) = 2
    /\ \E i, j \in 1..Len(scans) :
           /\ scans[i].id = response.scan_id
           /\ scans[i].status = "reviewed"
           /\ scans[j].status = "pending"

\* C29: the list get_queue returns holds exactly the scans that are pending
\* at that moment, of the given facility when one is given: a scan is listed
\* once add_scan stored it, no longer once update_scan_status gave it another
\* status, none after clear_all_scans; the patients table is as it was
\* throughout.
C29_QueueIsThePendingScans ==
    /\ patients = SeededPatients
    /\ (response # NoResponse /\ response.op = "queue") =>
           LET pending ==
                   {scans[i].id : i \in
                       {j \in 1..Len(scans) :
                           /\ scans[j].status = "pending"
                           /\ \/ response.facility_id = None
                              \/ scans[j].facility_id = response.facility_id.v}}
           IN  /\ {queue[k].id : k \in 1..Len(queue)} = pending
               /\ Len(queue) = Cardinality(pending)

\* of two scans of one facility, one was reviewed and the list for that
\* facility holds the other
C29_Witness ==
    /\ response # NoResponse
    /\ response.op = "queue"
    /\ response.facility_id # None
    /\ Len(queue) = 1
    /\ Len(scans) = 2
    /\ \A i \in 1..Len(scans) : scans[i].facility_id = response.facility_id.v
    /\ \E i \in 1..Len(scans) : scans[i].status = "reviewed"

\* C24 (as stated): the chronic_conditions of a merged history are those of
\* the earliest stored record of the identifier (the first one written for
\* it); records appended later, whatever they carry, do not change them.
C24_ChronicFromEarliestRecord ==
    HistoryReturned =>
        LET mine == {i \in 1..Len(writes) : writes[i].patient_id = lookup.patient_id}
            earliest == CHOOSE i \in mine : \A j \in mine : i <= j
        IN  lookup.outcome.value.chronic_conditions = writes[earliest].chronic_conditions

\* C21: when add_scan raises in an upload, the request is answered with an
\* error (never 200), the scans table has no new row, and neither a hospital
\* case nor a patient record is written for it.
C21_PersistenceFailureSurfaces ==
    [][(lookup' # NoLookup /\ lookup'.op = "add_scan"
            /\ lookup'.outcome.kind = "raise") =>
          /\ response'.status \in {400, 500}
          /\ scans' = scans
          /\ hospital_store' = hospital_store
          /\ patient_store' = patient_store]_vars

\* after one stored upload, a second one whose INSERT failed: answered 500,
\* its file is on disk, the scans table still has the one row
C21_Witness ==
    /\ lookup # NoLookup
    /\ lookup.op = "add_scan"
    /\ lookup.outcome.kind = "raise"
    /\ response.status = 500
    /\ Len(scans) = 1
    /\ Cardinality(files) = 2
    /\ Cardinality(hospital_store) = 1

\* C26: in every upload the reasoning-memory update comes after the scan row
\* exists; when it succeeds it adds exactly one hospital case, whose id is
\* that of the new scan and of no earlier case, and exactly one patient
\* record if the upload has a patient identifier, none otherwise; no step
\* removes or changes a stored case or record.
C26_CaseMemoryAppendsOnce ==
    [][/\ hospital_store \subseteq hospital_store'
       /\ \A i \in 1..Len(patient_store) :
              Occurrences(patient_store', patient_store[i]) >=
                  Occurrences(patient_store, patient_store[i])
       /\ (hospital_store' # hospital_store \/ patient_store' # patient_store) =>
              /\ response'.status = 200
              /\ \E i \in 1..Len(scans') : scans'[i].id = response'.scan_id
       /\ (response'.status = 200 /\ uploader'[1].pc = "done") =>
              /\ response'.scan_id \notin hospital_store
              /\ hospital_store' = hospital_store \cup {response'.scan_id}
              /\ IF uploader'[1].call.patient_identifier # ""
                 THEN /\ Len(patient_store') = Len(patient_store) + 1
                      /\ Occurrences(patient_store',
                                     StoredRecord(RagPatientData(uploader'[1].call))) =
                             Occurrences(patient_store,
                                         StoredRecord(RagPatientData(uploader'[1].call))) + 1
                 ELSE patient_store' = patient_store]_vars

\* two uploads went through, one with a patient and one without
C26_Witness ==
    /\ response.status = 200
    /\ uploader # <<>>
    /\ uploader[1].pc = "done"
    /\ Len(scans) = 2
    /\ Cardinality(hospital_store) = 2
    /\ Len(patient_store) = 1

\* C30: when the reasoning-memory update of an upload fails, the upload is
\* still answered 200 and its scan row is stored, pending, and among the
\* rows the queue selects; and if no hospital case was written then no
\* patient record was written either.
C30_MemoryFailureKeepsScan ==
    [][(uploader' # <<>> /\ uploader'[1].pc = "raised") =>
          /\ response'.status = 200
          /\ Len(scans') = Len(scans) + 1
          /\ SubSeq(scans', 1, Len(scans)) = scans
          /\ scans'[Len(scans')].id = response'.scan_id
          /\ scans'[Len(scans')].status = "pending"
          /\ Len(scans') \in Selected(scans', None)
          /\ hospital_store' = hospital_store => patient_store' = patient_store]_vars

\* an upload for a patient met a store that was down: the scan is stored,
\* nothing is in either collection
C30_Witness ==
    /\ uploader # <<>>
    /\ uploader[1].pc = "raised"
    /\ uploader[1].call.patient_identifier # ""
    /\ response.status = 200
    /\ Len(scans) = 1
    /\ scans[1].status = "pending"
    /\ hospital_store = {}
    /\ patient_store = <<>>

====
